---- MODULE Spec2Model ----
(***************************************************************************)
(* A model of the funmon-be spending API: the HTTP handlers of main.go     *)
(* (transactionsHandler, refreshHandler, the mux router of main), the      *)
(* summarizer calculateSummary, and the Gmail fetch/parse pipeline of      *)
(* services (FetchTransactions, parseTransactionEmail, stripHTMLTags,      *)
(* extractMessageContent).                                                 *)
(*                                                                         *)
(* Go strings that the code takes apart (message bodies, dates, month      *)
(* keys) are sequences of one-character strings.  Amounts (float64 in the  *)
(* code) are integers in hundredths; the message catalogue only holds      *)
(* amounts with at most two decimals, so sums are exact.                   *)
(***************************************************************************)
EXTENDS Integers, Sequences, FiniteSets, TLC

VARIABLES
    now,           \* wall clock, in minutes
    cache,         \* the Redis store: key -> entry (value, expiry)
    gmailService,  \* the package-level *services.GmailService of main.go
    req,           \* per request: the handler's locals and its position
    refreshed,     \* when the last refresh that stored all three keys ended, or -1
    fx,            \* FetchTransactions harness: inputs and result
    sx             \* calculateSummary harness: inputs and result

vars == <<now, cache, gmailService, req, refreshed, fx, sx>>

(***************************************************************************)
(* Characters and numbers                                                  *)
(***************************************************************************)
Digits == {"0", "1", "2", "3", "4", "5", "6", "7", "8", "9"}

DigitVal(c) ==
    CASE c = "0" -> 0 [] c = "1" -> 1 [] c = "2" -> 2 [] c = "3" -> 3
      [] c = "4" -> 4 [] c = "5" -> 5 [] c = "6" -> 6 [] c = "7" -> 7
      [] c = "8" -> 8 [] c = "9" -> 9

DigitChar(n) ==
    CASE n = 0 -> "0" [] n = 1 -> "1" [] n = 2 -> "2" [] n = 3 -> "3"
      [] n = 4 -> "4" [] n = 5 -> "5" [] n = 6 -> "6" [] n = 7 -> "7"
      [] n = 8 -> "8" [] n = 9 -> "9"

\* Byte value of the characters that occur in date and month keys, as
\* sort.Strings compares them.
ByteOf(c) == IF c = "-" THEN 45 ELSE IF c \in Digits THEN 48 + DigitVal(c) ELSE 120

Whitespace == {" ", "\t", "\n"}

AllDigits(s) == \A i \in 1..Len(s) : s[i] \in Digits

RECURSIVE NumVal(_)
NumVal(s) == IF s = <<>> THEN 0
             ELSE 10 * NumVal(SubSeq(s, 1, Len(s) - 1)) + DigitVal(s[Len(s)])

\* n as exactly w decimal digits (fmt zero padding of time.Format)
RECURSIVE Pad(_, _)
Pad(n, w) == IF w = 0 THEN <<>>
             ELSE Pad(n \div 10, w - 1) \o <<DigitChar(n % 10)>>

(***************************************************************************)
(* Calendar: the part of package time the code uses                        *)
(***************************************************************************)
IsLeap(y) == (y % 4 = 0) /\ ((y % 100 # 0) \/ (y % 400 = 0))

DaysIn(y, m) ==
    IF m = 2 THEN (IF IsLeap(y) THEN 29 ELSE 28)
    ELSE IF m \in {4, 6, 9, 11} THEN 30 ELSE 31

ValidYMD(y, m, d) == m \in 1..12 /\ d >= 1 /\ d <= DaysIn(y, m)

\* time.Time{} : January 1, year 1
ZeroTime == <<1, 1, 1>>

\* t.After(u) on dates <<y, m, d>>
After(t, u) ==
    \/ t[1] > u[1]
    \/ t[1] = u[1] /\ t[2] > u[2]
    \/ t[1] = u[1] /\ t[2] = u[2] /\ t[3] > u[3]

\* t.AddDate(0, 0, -1)
PrevDay(t) ==
    IF t[3] > 1 THEN <<t[1], t[2], t[3] - 1>>
    ELSE IF t[2] > 1 THEN <<t[1], t[2] - 1, DaysIn(t[1], t[2] - 1)>>
    ELSE <<t[1] - 1, 12, 31>>

\* t.AddDate(0, 0, -i)
RECURSIVE DaysBefore(_, _)
DaysBefore(t, i) == IF i = 0 THEN t ELSE DaysBefore(PrevDay(t), i - 1)

\* t.Format("2006-01-02")
FormatDate(t) == Pad(t[1], 4) \o <<"-">> \o Pad(t[2], 2) \o <<"-">> \o Pad(t[3], 2)

\* t.Format("2006-01")
FormatMonth(t) == Pad(t[1], 4) \o <<"-">> \o Pad(t[2], 2)

\* time.Parse("2006-01-02", s): [ok, t]
ParseISODate(s) ==
    IF /\ Len(s) = 10
       /\ s[5] = "-" /\ s[8] = "-"
       /\ AllDigits(SubSeq(s, 1, 4)) /\ AllDigits(SubSeq(s, 6, 7))
       /\ AllDigits(SubSeq(s, 9, 10))
       /\ ValidYMD(NumVal(SubSeq(s, 1, 4)), NumVal(SubSeq(s, 6, 7)),
                   NumVal(SubSeq(s, 9, 10)))
    THEN [ok |-> TRUE,
          t |-> <<NumVal(SubSeq(s, 1, 4)), NumVal(SubSeq(s, 6, 7)),
                  NumVal(SubSeq(s, 9, 10))>>]
    ELSE [ok |-> FALSE, t |-> ZeroTime]

\* time.Parse("02-01-06", s) on the eight characters the date pattern
\* captured: a two-digit year yy is 19yy from 69 on, 20yy below.
ParseShortDate(s) ==
    LET d == NumVal(SubSeq(s, 1, 2))
        m == NumVal(SubSeq(s, 4, 5))
        yy == NumVal(SubSeq(s, 7, 8))
        y == IF yy >= 69 THEN 1900 + yy ELSE 2000 + yy
    IN  IF ValidYMD(y, m, d) THEN [ok |-> TRUE, t |-> <<y, m, d>>]
        ELSE [ok |-> FALSE, t |-> ZeroTime]

(***************************************************************************)
(* services: message parsing                                               *)
(*                                                                         *)
(* A gmail.MessagePart is [mimeType, data, parts]; data is the base64url   *)
(* body: enc = "none" for a nil body or empty Data, "invalid" for Data     *)
(* that base64.URLEncoding rejects, "valid" for Data that decodes to text. *)
(***************************************************************************)
\* base64.URLEncoding.DecodeString(part.Body.Data): [err, data]
DecodeString(data) ==
    IF data.enc = "valid" THEN [err |-> FALSE, data |-> data.text]
    ELSE [err |-> TRUE, data |-> <<>>]

RECURSIVE extractMessageContent(_)
RECURSIVE firstNestedContent(_)
\* the loop over part.Parts: the first nested part with content wins
firstNestedContent(parts) ==
    IF parts = <<>> THEN <<>>
    ELSE LET content == extractMessageContent(Head(parts))
         IN  IF content # <<>> THEN content
             ELSE firstNestedContent(Tail(parts))

extractMessageContent(part) ==
    IF /\ part.mimeType = "text/plain" /\ part.data.enc # "none"
       /\ ~DecodeString(part.data).err
    THEN DecodeString(part.data).data
    ELSE IF /\ part.mimeType = "text/html" /\ part.data.enc # "none"
            /\ ~DecodeString(part.data).err
    THEN DecodeString(part.data).data
    ELSE firstNestedContent(part.parts)

\* stripHTMLTags: the text nodes of the parsed document, concatenated.
\* A tag runs from "<" to the next ">"; a "<" that is never closed is text.
\* (html.Parse reports no error on an in-memory string, so the fallback
\* that returns the input unchanged is never taken.)
RECURSIVE stripFrom(_, _)
stripFrom(s, i) ==
    IF i > Len(s) THEN <<>>
    ELSE IF s[i] = "<" /\ \E j \in (i + 1)..Len(s) : s[j] = ">"
    THEN LET close == CHOOSE j \in (i + 1)..Len(s) :
                         /\ s[j] = ">"
                         /\ \A k \in (i + 1)..(j - 1) : s[k] # ">"
         IN  stripFrom(s, close + 1)
    ELSE <<s[i]>> \o stripFrom(s, i + 1)

stripHTMLTags(htmlContent) == stripFrom(htmlContent, 1)

\* first index >= i of s that is not whitespace (Len(s) + 1 if none)
RECURSIVE SkipSpace(_, _)
SkipSpace(s, i) ==
    IF i <= Len(s) /\ s[i] \in Whitespace THEN SkipSpace(s, i + 1) ELSE i

\* the longest run of characters of class cls from index i
RECURSIVE Run(_, _, _)
Run(s, i, cls) ==
    IF i <= Len(s) /\ s[i] \in cls THEN <<s[i]>> \o Run(s, i + 1, cls) ELSE <<>>

AmountChars == Digits \cup {",", "."}

\* (?i)Rs.\s*\$?([0-9,.]+) anchored at i: the captured group, <<>> if no
\* match.  The classes \s, \$ and [0-9,.] are disjoint, so the greedy
\* match is the only one.
AmountAt(s, i) ==
    IF /\ i + 2 <= Len(s)
       /\ s[i] \in {"R", "r"} /\ s[i + 1] \in {"S", "s"} /\ s[i + 2] # "\n"
    THEN LET j == SkipSpace(s, i + 3)
             k == IF j <= Len(s) /\ s[j] = "$" THEN j + 1 ELSE j
         IN  Run(s, k, AmountChars)
    ELSE <<>>

\* amountPattern.FindStringSubmatch(body): leftmost match, [found, group]
RECURSIVE amountFrom(_, _)
amountOr(group, s, i) ==
    IF group # <<>> THEN [found |-> TRUE, group |-> group]
    ELSE amountFrom(s, i + 1)

amountFrom(s, i) ==
    IF i > Len(s) THEN [found |-> FALSE, group |-> <<>>]
    ELSE amountOr(AmountAt(s, i), s, i)

amountMatch(body) == amountFrom(body, 1)

\* on\s+(\d{2}-\d{2}-\d{2}) anchored at i
DateAt(s, i) ==
    IF /\ i + 2 <= Len(s)
       /\ s[i] = "o" /\ s[i + 1] = "n" /\ s[i + 2] \in Whitespace
    THEN LET j == SkipSpace(s, i + 2)
         IN  IF /\ j + 7 <= Len(s)
                /\ s[j] \in Digits /\ s[j + 1] \in Digits /\ s[j + 2] = "-"
                /\ s[j + 3] \in Digits /\ s[j + 4] \in Digits /\ s[j + 5] = "-"
                /\ s[j + 6] \in Digits /\ s[j + 7] \in Digits
             THEN SubSeq(s, j, j + 7)
             ELSE <<>>
    ELSE <<>>

\* datePattern.FindStringSubmatch(body): leftmost match, [found, group]
RECURSIVE dateFrom(_, _)
dateOr(group, s, i) ==
    IF group # <<>> THEN [found |-> TRUE, group |-> group]
    ELSE dateFrom(s, i + 1)

dateFrom(s, i) ==
    IF i > Len(s) THEN [found |-> FALSE, group |-> <<>>]
    ELSE dateOr(DateAt(s, i), s, i)

dateMatch(body) == dateFrom(body, 1)

\* strings.ReplaceAll(s, ",", "")
RECURSIVE ReplaceAllCommas(_)
ReplaceAllCommas(s) ==
    IF s = <<>> THEN <<>>
    ELSE (IF Head(s) = "," THEN <<>> ELSE <<Head(s)>>) \o ReplaceAllCommas(Tail(s))

\* strconv.ParseFloat(s, 64) on a string of digits and dots: at most one
\* dot and at least one digit.  The value is in hundredths.
ParseFloat(s) ==
    LET dots == {i \in 1..Len(s) : s[i] = "."}
        dot == IF dots = {} THEN Len(s) + 1 ELSE CHOOSE i \in dots : TRUE
        whole == SubSeq(s, 1, dot - 1)
        frac == SubSeq(s, dot + 1, Len(s))
        frac2 == SubSeq(frac \o <<"0", "0">>, 1, 2)
    IN  IF Cardinality(dots) <= 1 /\ Len(s) - Cardinality(dots) >= 1
        THEN [err |-> FALSE, val |-> 100 * NumVal(whole) + NumVal(frac2)]
        ELSE [err |-> TRUE, val |-> 0]

Description == "Transaction from HTML email"

NoTransaction == [date |-> <<>>, amount |-> 0, description |-> ""]

ParseError == [err |-> TRUE, txn |-> NoTransaction]

\* parseTransactionEmail once both fields are converted
parseFields(amount, parsedDate) ==
    IF amount.err THEN ParseError
    ELSE IF ~parsedDate.ok THEN ParseError
    ELSE [err |-> FALSE,
          txn |-> [date |-> FormatDate(parsedDate.t),
                   amount |-> amount.val,
                   description |-> Description]]

\* parseTransactionEmail once both patterns have been run
parseMatches(am, dm) ==
    IF ~am.found \/ ~dm.found THEN ParseError
    ELSE parseFields(ParseFloat(ReplaceAllCommas(am.group)), ParseShortDate(dm.group))

\* parseTransactionEmail on the content extractMessageContent returned
parseBody(body) == parseMatches(amountMatch(body), dateMatch(body))

parseContent(content) ==
    IF content = <<>> THEN ParseError
    ELSE parseBody(stripHTMLTags(content))

\* GmailService.parseTransactionEmail: [err, txn]
parseTransactionEmail(msg) == parseContent(extractMessageContent(msg.payload))

(***************************************************************************)
(* The messages of the model: decoded bodies, then MIME trees              *)
(***************************************************************************)
\* "<p>Rs. 1,234.50 on 05-03-24</p>"
TextHtmlGood ==
    <<"<", "p", ">", "R", "s", ".", " ", "1", ",", "2", "3", "4", ".", "5",
      "0", " ", "o", "n", " ", "0", "5", "-", "0", "3", "-", "2", "4", "<",
      "/", "p", ">">>

\* "Paid Rs.500 on 31-01-24"
TextPlainGood ==
    <<"P", "a", "i", "d", " ", "R", "s", ".", "5", "0", "0", " ", "o", "n",
      " ", "3", "1", "-", "0", "1", "-", "2", "4">>

\* "Rs. 75 debited"
TextNoDate ==
    <<"R", "s", ".", " ", "7", "5", " ", "d", "e", "b", "i", "t", "e", "d">>

\* "<b>Paid on 05-03-24</b>"
TextNoAmount ==
    <<"<", "b", ">", "P", "a", "i", "d", " ", "o", "n", " ", "0", "5", "-",
      "0", "3", "-", "2", "4", "<", "/", "b", ">">>

\* "Rs. 1.2.3 on 05-03-24"
TextBadAmount ==
    <<"R", "s", ".", " ", "1", ".", "2", ".", "3", " ", "o", "n", " ", "0",
      "5", "-", "0", "3", "-", "2", "4">>

\* "Rs. 20 on 45-13-24"
TextBadDate ==
    <<"R", "s", ".", " ", "2", "0", " ", "o", "n", " ", "4", "5", "-", "1",
      "3", "-", "2", "4">>

\* "INR rs 99.5 on  04-03-24"
TextPrevDay ==
    <<"I", "N", "R", " ", "r", "s", " ", "9", "9", ".", "5", " ", "o", "n",
      " ", " ", "0", "4", "-", "0", "3", "-", "2", "4">>

\* "UPI txn Rs. $250 on 20-02-24"
TextFeb ==
    <<"U", "P", "I", " ", "t", "x", "n", " ", "R", "s", ".", " ", "$", "2",
      "5", "0", " ", "o", "n", " ", "2", "0", "-", "0", "2", "-", "2", "4">>

NoData == [enc |-> "none", text |-> <<>>]

Leaf(mimeType, text) ==
    [mimeType |-> mimeType, data |-> [enc |-> "valid", text |-> text],
     parts |-> <<>>]

Multipart(parts) ==
    [mimeType |-> "multipart/alternative", data |-> NoData, parts |-> parts]

\* The payloads the provider can hand out.  1, 2, 7, 8 parse; 3 lacks the
\* date, 4 the amount, 5 has an amount ParseFloat rejects, 6 a date
\* time.Parse rejects, 9 has no textual part at all.  7's text/plain part
\* is not valid base64, so its text/html sibling is used.
Payload(n) ==
    CASE n = 1 -> Multipart(<<Leaf("text/html", TextHtmlGood)>>)
      [] n = 2 -> Leaf("text/plain", TextPlainGood)
      [] n = 3 -> Leaf("text/plain", TextNoDate)
      [] n = 4 -> Leaf("text/html", TextNoAmount)
      [] n = 5 -> Leaf("text/plain", TextBadAmount)
      [] n = 6 -> Leaf("text/plain", TextBadDate)
      [] n = 7 -> Multipart(<<[mimeType |-> "text/plain",
                               data |-> [enc |-> "invalid", text |-> <<>>],
                               parts |-> <<>>],
                              Multipart(<<Leaf("text/html", TextPrevDay)>>)>>)
      [] n = 8 -> Leaf("text/plain", TextFeb)
      [] n = 9 -> Multipart(<<Leaf("image/png", TextPlainGood)>>)

PayloadIds == 1..9

\* a message of a listing: its id, its age in days, its payload
Message(id, age, n) == [id |-> id, age |-> age, payload |-> Payload(n)]

(***************************************************************************)
(* services: GmailService.FetchTransactions                                *)
(***************************************************************************)
ListCall(gs) == [op |-> "list", client |-> gs, id |-> 0]

GetCall(gs, id) == [op |-> "get", client |-> gs, id |-> id]

\* loopStep that gives up on the rest of the listing at the first message
\* it cannot retrieve or parse
loopStep_StopAtFailure(gs, msg, getFail, parsed, rest) ==
    [txns |-> IF msg.id \in getFail \/ parsed.err THEN <<>>
              ELSE <<parsed.txn>> \o rest.txns,
     calls |-> <<GetCall(gs, msg.id)>> \o rest.calls]

\* the loop over messages.Messages: one Get per message; a failed Get or
\* a failed parse is logged and the loop continues with the next message.
RECURSIVE fetchLoop(_, _, _)
loopStep(gs, msg, getFail, parsed, rest) ==
    [txns |-> (IF msg.id \in getFail \/ parsed.err THEN <<>> ELSE <<parsed.txn>>)
              \o rest.txns,
     calls |-> <<GetCall(gs, msg.id)>> \o rest.calls]

fetchLoop(gs, messages, getFail) ==
    IF messages = <<>> THEN [txns |-> <<>>, calls |-> <<>>]
    ELSE loopStep(gs, Head(messages), getFail, parseTransactionEmail(Head(messages)),
                  fetchLoop(gs, Tail(messages), getFail))

fetched(gs, loop) ==
    [err |-> FALSE, code |-> 200, txns |-> loop.txns,
     calls |-> <<ListCall(gs)>> \o loop.calls]

\* FetchTransactions that turns a failed Get into an error of the fetch
FetchTransactions_AbortOnGetFailure(gs, messages, listOutcome, getFail) ==
    IF listOutcome = "unauthorized"
    THEN [err |-> TRUE, code |-> 401, txns |-> <<>>, calls |-> <<ListCall(gs)>>]
    ELSE IF listOutcome # "ok" \/ getFail # {}
    THEN [err |-> TRUE, code |-> 500, txns |-> <<>>, calls |-> <<ListCall(gs)>>]
    ELSE fetched(gs, fetchLoop(gs, messages, getFail))

\* FetchTransactions on client gs, where the provider answers the list
\* call with listOutcome ("ok", "unauthorized" for a 401/403, "error") and
\* fails the Get of the ids in getFail: [err, code, txns, calls].
FetchTransactions(gs, messages, listOutcome, getFail) ==
    IF listOutcome = "unauthorized"
    THEN [err |-> TRUE, code |-> 401, txns |-> <<>>, calls |-> <<ListCall(gs)>>]
    ELSE IF listOutcome # "ok"
    THEN [err |-> TRUE, code |-> 500, txns |-> <<>>, calls |-> <<ListCall(gs)>>]
    ELSE fetched(gs, fetchLoop(gs, messages, getFail))

ListOutcomes == {"ok", "unauthorized", "error"}

(***************************************************************************)
(* main: calculateSummary                                                  *)
(***************************************************************************)
Layout(txn) == ParseISODate(txn.date)

\* maxDate after the loop: starts at the zero time, replaced by every
\* parsed date that is After it
RECURSIVE maxDateOf(_, _)
maxDateOf(transactions, maxDate) ==
    IF transactions = <<>> THEN maxDate
    ELSE LET p == Layout(Head(transactions))
         IN  maxDateOf(Tail(transactions),
                       IF p.ok /\ After(p.t, maxDate) THEN p.t ELSE maxDate)

\* dateTotals[key] of the daily case (keyed by txn.Date) and of the weekly
\* case (keyed by t.Format(layout)); a missing key reads as 0
RECURSIVE dateTotals(_, _, _)
dateTotals(transactions, key, reformat) ==
    IF transactions = <<>> THEN 0
    ELSE LET txn == Head(transactions)
             p == Layout(txn)
             k == IF reformat THEN FormatDate(p.t) ELSE txn.date
         IN  (IF p.ok /\ k = key THEN txn.amount ELSE 0)
             + dateTotals(Tail(transactions), key, reformat)

\* monthTotals[key]
RECURSIVE monthTotals(_, _)
monthTotals(transactions, key) ==
    IF transactions = <<>> THEN 0
    ELSE LET txn == Head(transactions)
             p == Layout(txn)
         IN  (IF p.ok /\ FormatMonth(p.t) = key THEN txn.amount ELSE 0)
             + monthTotals(Tail(transactions), key)

\* the keys of monthTotals
monthKeys(transactions) ==
    {FormatMonth(Layout(transactions[i]).t) :
        i \in {j \in 1..Len(transactions) : Layout(transactions[j]).ok}}

\* a < b as Go compares strings: byte by byte, a proper prefix is smaller
RECURSIVE StringLess(_, _)
StringLess(a, b) ==
    IF b = <<>> THEN FALSE
    ELSE IF a = <<>> THEN TRUE
    ELSE IF ByteOf(Head(a)) # ByteOf(Head(b)) THEN ByteOf(Head(a)) < ByteOf(Head(b))
    ELSE StringLess(Tail(a), Tail(b))

\* sort.Strings on the keys of a map: ascending, no duplicates
RECURSIVE sortStrings(_)
sortStrings(keys) ==
    IF keys = {} THEN <<>>
    ELSE LET least == CHOOSE k \in keys : \A o \in keys \ {k} : StringLess(k, o)
         IN  <<least>> \o sortStrings(keys \ {least})

\* ((current - previous) / previous) * 100 as the fraction <<num, den>>,
\* 0 when previous is 0
changeOf(currentTotal, previousTotal) ==
    IF previousTotal # 0 /\ currentTotal # previousTotal
    THEN <<(currentTotal - previousTotal) * 100, previousTotal>>
    ELSE <<0, 1>>

NoSummary == [total |-> 0, previously |-> 0, changePercentage |-> <<0, 1>>]

MkSummary(total, previously) ==
    [total |-> total, previously |-> previously,
     changePercentage |-> changeOf(total, previously)]

\* currentWeekTotal (from = 0) and previousWeekTotal (from = 7): the sum
\* over i in from..from+6 of dateTotals[maxDate - i days]
RECURSIVE weekTotal(_, _, _, _)
weekTotal(transactions, maxDate, from, n) ==
    IF n = 0 THEN 0
    ELSE dateTotals(transactions, FormatDate(DaysBefore(maxDate, from)), TRUE)
         + weekTotal(transactions, maxDate, from + 1, n - 1)

RECURSIVE sumAmounts(_)
sumAmounts(transactions) ==
    IF transactions = <<>> THEN 0
    ELSE Head(transactions).amount + sumAmounts(Tail(transactions))

dailyAt(transactions, maxDate) ==
    IF maxDate = ZeroTime THEN [err |-> TRUE, summary |-> NoSummary]
    ELSE [err |-> FALSE,
          summary |-> MkSummary(
              dateTotals(transactions, FormatDate(maxDate), FALSE),
              dateTotals(transactions, FormatDate(PrevDay(maxDate)), FALSE))]

summaryDaily(transactions) == dailyAt(transactions, maxDateOf(transactions, ZeroTime))

weeklyAt(transactions, maxDate) ==
    IF maxDate = ZeroTime THEN [err |-> TRUE, summary |-> NoSummary]
    ELSE [err |-> FALSE,
          summary |-> MkSummary(weekTotal(transactions, maxDate, 0, 7),
                                weekTotal(transactions, maxDate, 7, 7))]

summaryWeekly(transactions) == weeklyAt(transactions, maxDateOf(transactions, ZeroTime))

\* monthlyOf that compares with the calendar month before the latest one
monthlyOf_CalendarPrevious(transactions, months) ==
    IF Len(months) = 0 THEN [err |-> TRUE, summary |-> NoSummary]
    ELSE [err |-> FALSE,
          summary |-> MkSummary(
              monthTotals(transactions, months[Len(months)]),
              monthTotals(transactions,
                  FormatMonth(PrevDay(<<NumVal(SubSeq(months[Len(months)], 1, 4)),
                                        NumVal(SubSeq(months[Len(months)], 6, 7)),
                                        1>>))))]

\* months is the sorted slice of the keys of monthTotals
monthlyOf(transactions, months) ==
    IF Len(months) = 0 THEN [err |-> TRUE, summary |-> NoSummary]
    ELSE [err |-> FALSE,
          summary |-> MkSummary(
              monthTotals(transactions, months[Len(months)]),
              IF Len(months) >= 2
              THEN monthTotals(transactions, months[Len(months) - 1])
              ELSE 0)]

summaryMonthly(transactions) ==
    monthlyOf(transactions, sortStrings(monthKeys(transactions)))

summaryAll(transactions) ==
    [err |-> FALSE,
     summary |-> [total |-> sumAmounts(transactions), previously |-> 0,
                  changePercentage |-> <<0, 1>>]]

\* calculateSummary(transactions, period): [err, summary]
calculateSummary(transactions, period) ==
    CASE period = "daily" -> summaryDaily(transactions)
      [] period = "weekly" -> summaryWeekly(transactions)
      [] period = "monthly" -> summaryMonthly(transactions)
      [] OTHER -> summaryAll(transactions)

(***************************************************************************)
(* Bounds of the model                                                     *)
(***************************************************************************)
MaxMsgs == 3        \* messages in a listing handed to FetchTransactions
MaxTxns == 3        \* transactions handed to calculateSummary

\* all sequences over S of length at most n
RECURSIVE SeqsUpTo(_, _)
SeqsUpTo(S, n) ==
    IF n = 0 THEN {<<>>}
    ELSE LET shorter == SeqsUpTo(S, n - 1)
         IN  shorter \cup {Append(q, x) : q \in {r \in shorter : Len(r) = n - 1}, x \in S}

(***************************************************************************)
(* FetchTransactions on its own: any listing of at most MaxMsgs messages   *)
(* of the catalogue, any answer to the list call, any set of failing Gets  *)
(***************************************************************************)
Idle == [err |-> FALSE, code |-> 0, txns |-> <<>>, calls |-> <<>>]

\* the listing messages.Messages built from payload numbers: ids 1..n
ListingOf(ns) == [i \in 1..Len(ns) |-> Message(i, 1, ns[i])]

FetchInit ==
    /\ fx \in {[phase |-> "input", payloads |-> ns, listOutcome |-> o,
                getFail |-> f, res |-> Idle] :
                  ns \in SeqsUpTo(PayloadIds, MaxMsgs), o \in ListOutcomes,
                  f \in SUBSET (1..MaxMsgs)}
    /\ fx.getFail \subseteq 1..Len(fx.payloads)
    /\ now = 0 /\ cache = <<>> /\ gmailService = "" /\ req = <<>>
    /\ refreshed = -1 /\ sx = <<>>

FetchCall ==
    /\ fx.phase = "input"
    /\ fx' = [fx EXCEPT !.phase = "done",
                        !.res = FetchTransactions("tokA", ListingOf(fx.payloads),
                                                  fx.listOutcome, fx.getFail)]
    /\ UNCHANGED <<now, cache, gmailService, req, refreshed, sx>>

FetchNext == FetchCall

SpecFetch == FetchInit /\ [][FetchNext]_vars

(***************************************************************************)
(* calculateSummary on its own: any list of at most MaxTxns transactions   *)
(* over a few dates (two of them not parseable) and amounts, any period    *)
(***************************************************************************)
SummaryDates ==
    {<<"2", "0", "2", "4", "-", "0", "3", "-", "0", "5">>, <<"2", "0", "2", "4", "-", "0", "3", "-", "0", "4">>, <<"2", "0", "2", "4", "-", "0", "1", "-", "3", "1">>, <<"2", "0", "2", "3", "-", "1", "2", "-", "3", "1">>,
     \* not dates: a day February does not have, and a month of one digit
     <<"2", "0", "2", "4", "-", "0", "2", "-", "3", "0">>, <<"2", "0", "2", "4", "-", "3", "-", "5">>}

SummaryAmounts == {100, 250}

Periods == {"daily", "weekly", "monthly", "all"}

SummaryInit ==
    /\ sx \in {[phase |-> "input", transactions |-> ts, period |-> p,
                res |-> [err |-> FALSE, summary |-> NoSummary]] :
                  ts \in SeqsUpTo({[date |-> d, amount |-> a, description |-> Description] :
                                      d \in SummaryDates, a \in SummaryAmounts}, MaxTxns),
                  p \in Periods}
    /\ now = 0 /\ cache = <<>> /\ gmailService = "" /\ req = <<>>
    /\ refreshed = -1 /\ fx = <<>>

SummaryCall ==
    /\ sx.phase = "input"
    /\ sx' = [sx EXCEPT !.phase = "done",
                        !.res = calculateSummary(sx.transactions, sx.period)]
    /\ UNCHANGED <<now, cache, gmailService, req, refreshed, fx>>

SummaryNext == SummaryCall

SpecSummary == SummaryInit /\ [][SummaryNext]_vars

(***************************************************************************)
(* The HTTP server: state, inputs and helpers                              *)
(***************************************************************************)
MaxTime == 20       \* the clock stops here
TickStep == 10      \* minutes the clock advances at a time

TTLOnDemand == 10   \* transactionsHandler: 10*time.Minute
TTLRefresh == 20    \* refreshHandler: 20*time.Minute

\* the requests of a run; each is received once, they may overlap
Reqs == {1, 2}

Paths == {"/transactions", "/refresh"}
Methods == {"GET", "POST", "OPTIONS"}
Filters == {"", "daily", "weekly", "monthly", "unknown"}
Tokens == {"", " ", "tokA", "tokB"}

\* strings.TrimSpace on the tokens of the model
TrimSpace(s) == IF s = " " THEN "" ELSE s

getCacheKey(filter) == "transactions:" \o filter

CacheKeys == {getCacheKey(f) : f \in {"daily", "weekly", "monthly", "all", "unknown"}}

\* main: r.HandleFunc(path, handler).Methods(...)
RouterMethods(path) ==
    IF path = "/transactions" THEN {"GET", "OPTIONS"} ELSE {"POST", "OPTIONS"}

\* filterDays with a default branch that falls back to the 90-day window
filterDays_DefaultAll(filter) ==
    CASE filter = "daily" -> 2
      [] filter = "weekly" -> 14
      [] filter = "monthly" -> 60
      [] OTHER -> 90

\* the switch of transactionsHandler; 0 stands for the default branch
filterDays(filter) ==
    CASE filter = "daily" -> 2
      [] filter = "weekly" -> 14
      [] filter = "monthly" -> 60
      [] filter = "all" -> 90
      [] OTHER -> 0

\* The mailboxes behind the two tokens.  tokA: a parseable message of
\* yesterday, one without a date, and a parseable one 40 days old.
\* tokB: one parseable message 5 days old (so its 2-day window is empty).
Mailbox(token) ==
    IF token = "tokA" THEN <<Message(1, 1, 1), Message(2, 1, 3), Message(3, 40, 2)>>
    ELSE IF token = "tokB" THEN <<Message(4, 5, 8)>>
    ELSE <<>>

\* what Users.Messages.List answers for the query "after:(now - days)
\* before:now subject:(...)" on a client's mailbox
RECURSIVE withinDays(_, _)
withinDays(messages, days) ==
    IF messages = <<>> THEN <<>>
    ELSE (IF Head(messages).age < days THEN <<Head(messages)>> ELSE <<>>)
         \o withinDays(Tail(messages), days)

MessagesList(gs, days) == withinDays(Mailbox(gs), days)

MessageIds(messages) == {messages[i].id : i \in 1..Len(messages)}

\* the sets of failing Gets a handler's fetch is run against: none (every
\* set of failing Gets is covered by SpecFetch)
GetFailures(messages) == {{}}

\* json.Marshal(TransactionsResponse{Summary, Details}): the document.
\* A nil Details slice (no transaction was appended) is written as null.
Marshal(response) ==
    [valid |-> TRUE,
     summary |-> <<response.summary.total, response.summary.previously,
                   response.summary.changePercentage>>,
     details |-> [null |-> response.details = <<>>,
                  items |-> [i \in 1..Len(response.details) |->
                                <<response.details[i].date,
                                  response.details[i].amount,
                                  response.details[i].description>>]]]

\* a cached value that is not a JSON document of a TransactionsResponse
Garbage ==
    [valid |-> FALSE, summary |-> <<0, 0, <<0, 1>>>>,
     details |-> [null |-> TRUE, items |-> <<>>]]

ZeroResponse == [summary |-> NoSummary, details |-> <<>>]

\* json.Unmarshal(cached, &response): [err, response]
Unmarshal(doc) ==
    IF ~doc.valid THEN [err |-> TRUE, response |-> ZeroResponse]
    ELSE [err |-> FALSE,
          response |->
             [summary |-> [total |-> doc.summary[1], previously |-> doc.summary[2],
                           changePercentage |-> doc.summary[3]],
              details |-> IF doc.details.null THEN <<>>
                          ELSE [i \in 1..Len(doc.details.items) |->
                                   [date |-> doc.details.items[i][1],
                                    amount |-> doc.details.items[i][2],
                                    description |-> doc.details.items[i][3]]]]]

\* a Redis entry; exp = -1 is a key without expiry
Absent == [present |-> FALSE, val |-> Garbage, exp |-> 0, at |-> 0, by |-> "none"]

\* redisClient.Set(ctx, key, val, ttl) that succeeds
Entry(val, ttl, by) ==
    [present |-> TRUE, val |-> val, exp |-> now + ttl, at |-> now, by |-> by]

Expired(e, t) == e.present /\ e.exp >= 0 /\ t >= e.exp

\* response bodies
NoBody == [kind |-> "none", code |-> 0, doc |-> Garbage]
\* respondError(w, statusCode, message)
ErrorBody(code) == [kind |-> "error", code |-> code, doc |-> Garbage]
\* json.NewEncoder(w).Encode(response)
Encode(response) == [kind |-> "json", code |-> 0, doc |-> Marshal(response)]
\* json.NewEncoder(w).Encode(map[string]interface{}{"success": true})
SuccessBody == [kind |-> "success", code |-> 0, doc |-> Garbage]

NoTxns == [daily |-> <<>>, weekly |-> <<>>, monthly |-> <<>>]

IdleReq ==
    [pc |-> "idle", path |-> "", method |-> "", filter |-> "", token |-> "",
     routed |-> FALSE, status |-> 0, body |-> NoBody, cacheRes |-> "none",
     transactions |-> <<>>, windows |-> NoTxns, calls |-> <<>>,
     wrote |-> {}, from |-> "", at |-> 0]

Respond(q, status, body) ==
    [q EXCEPT !.pc = "done", !.status = status, !.body = body, !.from = q.pc,
              !.at = now]

(***************************************************************************)
(* The HTTP server: initial state and actions                              *)
(***************************************************************************)
\* Redis is a server of its own: when main connects (InitRedis), a key
\* may already hold a value that is no TransactionsResponse document.
Init ==
    /\ now = 0
    /\ \E legacy \in SUBSET {getCacheKey("daily")} :
          cache = [k \in CacheKeys |->
                      IF k \in legacy
                      THEN [present |-> TRUE, val |-> Garbage, exp |-> -1,
                            at |-> 0, by |-> "legacy"]
                      ELSE Absent]
    /\ gmailService = "nil"
    /\ req = [r \in Reqs |-> IdleReq]
    /\ refreshed = -1
    /\ fx = <<>> /\ sx = <<>>

\* A handler that has written its response returns before anything else
\* is scheduled: its record only keeps what it answered.
Running == \A r \in Reqs : req[r].pc # "done"

Return(r) ==
    /\ req[r].pc = "done"
    /\ req' = [req EXCEPT ![r] = [IdleReq EXCEPT !.pc = "returned"]]
    /\ UNCHANGED <<now, cache, gmailService, refreshed, fx, sx>>

\* a key Redis has dropped: nothing is stored under it any more (by, at
\* and exp only remember the entry that was there)
Dropped(e) == [e EXCEPT !.present = FALSE, !.val = Garbage]

\* time passes; Redis drops the keys whose expiry has come
Tick ==
    /\ Running
    /\ now + TickStep <= MaxTime
    /\ now' = now + TickStep
    /\ cache' = [k \in CacheKeys |->
                    IF Expired(cache[k], now + TickStep) THEN Dropped(cache[k])
                    ELSE cache[k]]
    /\ UNCHANGED <<gmailService, req, refreshed, fx, sx>>

\* A request arrives and the mux router dispatches it: a method the route
\* was not registered for is answered 405 by the router itself.
Arrive(r) ==
    /\ Running
    /\ req[r].pc = "idle"
    /\ \A o \in Reqs : o < r => req[o].pc # "idle"
    /\ \E path \in Paths, method \in Methods, filter \in Filters, token \in Tokens :
          /\ path = "/refresh" => filter = ""
          /\ method = "OPTIONS" => filter = "" /\ token = ""
          /\ LET q == [IdleReq EXCEPT !.path = path, !.method = method,
                                      !.filter = filter, !.token = token]
             IN  req' = [req EXCEPT ![r] =
                            IF method \in RouterMethods(path)
                            THEN [q EXCEPT !.routed = TRUE,
                                           !.pc = IF path = "/transactions"
                                                  THEN "t_start" ELSE "r_start"]
                            ELSE Respond(q, 405, ErrorBody(405))]
    /\ UNCHANGED <<now, cache, gmailService, refreshed, fx, sx>>

\* the filter after the default is applied
FilterOf(q) == IF q.filter = "" THEN "all" ELSE q.filter

\* afterLookup that never serves what it read: every lookup is a miss
afterLookup_NeverServe(q, readOk, cached, un) ==
    IF TrimSpace(q.token) = ""
    THEN Respond([q EXCEPT !.cacheRes = "miss"], 401, ErrorBody(401))
    ELSE [q EXCEPT !.pc = "t_build", !.cacheRes = "miss"]

\* transactionsHandler after the cache lookup: cached is the entry read
\* (Absent when nothing was read), un its deserialization
afterLookup(q, readOk, cached, un) ==
    IF cached.present /\ ~un.err
    THEN Respond([q EXCEPT !.cacheRes = "hit"], 200, Encode(un.response))
    ELSE IF TrimSpace(q.token) = ""
    THEN Respond([q EXCEPT !.cacheRes = IF ~readOk THEN "readerr"
                                        ELSE IF cached.present THEN "badjson"
                                        ELSE "miss"],
                 401, ErrorBody(401))
    ELSE [q EXCEPT !.pc = "t_build",
                   !.cacheRes = IF ~readOk THEN "readerr"
                                ELSE IF cached.present THEN "badjson" ELSE "miss"]

\* redisClient.Get(ctx, key).Result(): the entry, Absent on redis.Nil or
\* on a Redis error
cacheGet(key, readOk) == IF readOk THEN cache[key] ELSE Absent

\* transactionsHandler up to the token check: preflight, method check,
\* cache lookup (which may fail with a Redis error) and, on a miss, the
\* check of access_token.
TransactionsStart(r) ==
    /\ Running
    /\ req[r].pc = "t_start"
    /\ \E readOk \in BOOLEAN :
          req' = [req EXCEPT ![r] =
             IF req[r].method = "OPTIONS" THEN Respond(req[r], 200, NoBody)
             ELSE IF req[r].method # "GET" THEN Respond(req[r], 405, ErrorBody(405))
             ELSE afterLookup(req[r], readOk,
                              cacheGet(getCacheKey(FilterOf(req[r])), readOk),
                              Unmarshal(cacheGet(getCacheKey(FilterOf(req[r])), readOk).val))]
    /\ UNCHANGED <<now, cache, gmailService, refreshed, fx, sx>>

\* transactionsHandler: the client built from the token is stored in the
\* package-level gmailService, then the filter is mapped to days.
\* (gmail.NewService is given the HTTP client and has nothing left that
\* can fail, so the error branch of the construction is never taken.)
TransactionsBuild(r) ==
    /\ Running
    /\ req[r].pc = "t_build"
    /\ gmailService' = req[r].token
    /\ req' = [req EXCEPT ![r] =
                  IF filterDays(FilterOf(req[r])) = 0
                  THEN Respond(req[r], 400, ErrorBody(400))
                  ELSE [req[r] EXCEPT !.pc = "t_fetch"]]
    /\ UNCHANGED <<now, cache, refreshed, fx, sx>>

\* transactionsHandler after FetchTransactions returned f
afterFetch(q, f) ==
    IF f.err
    THEN Respond([q EXCEPT !.calls = q.calls \o f.calls], f.code, ErrorBody(f.code))
    ELSE [q EXCEPT !.calls = q.calls \o f.calls, !.pc = "t_finish",
                   !.transactions = f.txns]

\* gmailService.FetchTransactions(days): the receiver is whatever the
\* package-level variable holds when the call is made.
TransactionsFetch(r) ==
    /\ Running
    /\ req[r].pc = "t_fetch"
    /\ \E listOutcome \in ListOutcomes,
          getFail \in GetFailures(MessagesList(gmailService, filterDays(FilterOf(req[r])))) :
          req' = [req EXCEPT ![r] =
             afterFetch(req[r],
                FetchTransactions(gmailService,
                    MessagesList(gmailService, filterDays(FilterOf(req[r]))),
                    listOutcome, getFail))]
    /\ UNCHANGED <<now, cache, gmailService, refreshed, fx, sx>>

\* TransactionsResponse{Summary: summary, Details: transactions}
Response(summary, transactions) == [summary |-> summary, details |-> transactions]

\* finishTransactions that stores its document for the refresh's 20 minutes
finishTransactions_LongTTL(r, q, key, sm, setOk) ==
    IF sm.err
    THEN /\ req' = [req EXCEPT ![r] = Respond(q, 500, ErrorBody(500))]
         /\ UNCHANGED cache
    ELSE /\ cache' = IF setOk
                     THEN [cache EXCEPT ![key] =
                              Entry(Marshal(Response(sm.summary, q.transactions)),
                                    TTLRefresh, "get")]
                     ELSE cache
         /\ req' = [req EXCEPT ![r] =
                       Respond([q EXCEPT !.wrote = IF setOk THEN {key} ELSE {}],
                               200, Encode(Response(sm.summary, q.transactions)))]

\* finishTransactions that answers 500 when the Set fails
finishTransactions_FailOnSetError(r, q, key, sm, setOk) ==
    IF sm.err \/ ~setOk
    THEN /\ req' = [req EXCEPT ![r] = Respond(q, 500, ErrorBody(500))]
         /\ UNCHANGED cache
    ELSE /\ cache' = [cache EXCEPT ![key] =
                         Entry(Marshal(Response(sm.summary, q.transactions)),
                               TTLOnDemand, "get")]
         /\ req' = [req EXCEPT ![r] =
                       Respond([q EXCEPT !.wrote = {key}],
                               200, Encode(Response(sm.summary, q.transactions)))]

\* transactionsHandler after calculateSummary returned sm
finishTransactions(r, q, key, sm, setOk) ==
    IF sm.err
    THEN /\ req' = [req EXCEPT ![r] = Respond(q, 500, ErrorBody(500))]
         /\ UNCHANGED cache
    ELSE /\ cache' = IF setOk
                     THEN [cache EXCEPT ![key] =
                              Entry(Marshal(Response(sm.summary, q.transactions)),
                                    TTLOnDemand, "get")]
                     ELSE cache
         /\ req' = [req EXCEPT ![r] =
                       Respond([q EXCEPT !.wrote = IF setOk THEN {key} ELSE {}],
                               200, Encode(Response(sm.summary, q.transactions)))]

\* transactionsHandler from calculateSummary on: summarize, store the
\* document for 10 minutes (a failed Set is only logged), answer 200.
TransactionsFinish(r) ==
    /\ Running
    /\ req[r].pc = "t_finish"
    /\ \E setOk \in BOOLEAN :
          finishTransactions(r, req[r], getCacheKey(FilterOf(req[r])),
                             calculateSummary(req[r].transactions, FilterOf(req[r])),
                             setOk)
    /\ UNCHANGED <<now, gmailService, refreshed, fx, sx>>

\* refreshHandler up to the three fetches: preflight, method check, token
\* check, and the client stored in the package-level gmailService.
RefreshStart(r) ==
    /\ Running
    /\ req[r].pc = "r_start"
    /\ LET q == req[r]
           proceed == /\ q.method \in {"GET", "POST"}
                      /\ TrimSpace(q.token) # ""
       IN  /\ req' = [req EXCEPT ![r] =
                  IF q.method = "OPTIONS" THEN Respond(q, 200, NoBody)
                  ELSE IF q.method \notin {"GET", "POST"}
                  THEN Respond(q, 405, ErrorBody(405))
                  ELSE IF TrimSpace(q.token) = ""
                  THEN Respond(q, 401, ErrorBody(401))
                  ELSE [q EXCEPT !.pc = "r_daily"]]
           /\ gmailService' = IF proceed THEN q.token ELSE gmailService
    /\ UNCHANGED <<now, cache, refreshed, fx, sx>>

\* the window a refresh fetches at each position, and the next position
RefreshWindow(pc) ==
    CASE pc = "r_daily" -> [name |-> "daily", days |-> 2, next |-> "r_weekly"]
      [] pc = "r_weekly" -> [name |-> "weekly", days |-> 14, next |-> "r_monthly"]
      [] pc = "r_monthly" -> [name |-> "monthly", days |-> 60, next |-> "r_finish"]

\* refreshHandler after FetchTransactions returned f for window w
afterRefreshFetch(q, w, f) ==
    IF f.err
    THEN Respond([q EXCEPT !.calls = q.calls \o f.calls], f.code, ErrorBody(f.code))
    ELSE [q EXCEPT !.calls = q.calls \o f.calls, !.pc = w.next,
                   !.windows = [q.windows EXCEPT ![w.name] = f.txns]]

\* refreshHandler: one of gmailService.FetchTransactions(2), (14), (60)
RefreshFetch(r) ==
    /\ Running
    /\ req[r].pc \in {"r_daily", "r_weekly", "r_monthly"}
    /\ \E listOutcome \in ListOutcomes,
          getFail \in GetFailures(MessagesList(gmailService, RefreshWindow(req[r].pc).days)) :
          req' = [req EXCEPT ![r] =
             afterRefreshFetch(req[r], RefreshWindow(req[r].pc),
                FetchTransactions(gmailService,
                    MessagesList(gmailService, RefreshWindow(req[r].pc).days),
                    listOutcome, getFail))]
    /\ UNCHANGED <<now, cache, gmailService, refreshed, fx, sx>>

RefreshFilters == {"daily", "weekly", "monthly"}

\* finishRefresh that stores every window whose summary succeeded and
\* reports a failed summary only afterwards
finishRefresh_StoreThenFail(r, q, sm, setOk) ==
    LET failed == {f \in RefreshFilters : sm[f].err}
        stored == (RefreshFilters \ failed) \cap setOk
    IN  /\ cache' = [k \in CacheKeys |->
                         IF \E f \in stored : k = getCacheKey(f)
                         THEN Entry(Marshal(Response(
                                      sm[CHOOSE f \in stored : k = getCacheKey(f)].summary,
                                      q.windows[CHOOSE f \in stored : k = getCacheKey(f)])),
                                    TTLRefresh, "refresh")
                         ELSE cache[k]]
        /\ req' = [req EXCEPT ![r] =
                      IF failed # {}
                      THEN Respond([q EXCEPT !.wrote = {getCacheKey(f) : f \in stored}],
                                   500, ErrorBody(500))
                      ELSE Respond([q EXCEPT !.wrote = {getCacheKey(f) : f \in stored}],
                                   200, SuccessBody)]
        /\ refreshed' = IF failed = {} /\ setOk = RefreshFilters THEN now ELSE refreshed

\* refreshHandler after the three calculateSummary calls returned sm
finishRefresh(r, q, sm, setOk) ==
    IF \E f \in RefreshFilters : sm[f].err
    THEN /\ req' = [req EXCEPT ![r] = Respond(q, 500, ErrorBody(500))]
         /\ UNCHANGED <<cache, refreshed>>
    ELSE /\ cache' = [k \in CacheKeys |->
                         IF \E f \in setOk : k = getCacheKey(f)
                         THEN Entry(Marshal(Response(
                                      sm[CHOOSE f \in setOk : k = getCacheKey(f)].summary,
                                      q.windows[CHOOSE f \in setOk : k = getCacheKey(f)])),
                                    TTLRefresh, "refresh")
                         ELSE cache[k]]
         /\ req' = [req EXCEPT ![r] =
                       Respond([q EXCEPT !.wrote = {getCacheKey(f) : f \in setOk}],
                               200, SuccessBody)]
         /\ refreshed' = IF setOk = RefreshFilters THEN now ELSE refreshed

\* refreshHandler from the summaries on: the three summaries, then the
\* three Sets for 20 minutes (their results are not looked at), then
\* {success: true}.
RefreshFinish(r) ==
    /\ Running
    /\ req[r].pc = "r_finish"
    /\ \E setOk \in SUBSET RefreshFilters :
          finishRefresh(r, req[r],
                        [f \in RefreshFilters |-> calculateSummary(req[r].windows[f], f)],
                        setOk)
    /\ UNCHANGED <<now, gmailService, fx, sx>>

Next ==
    \/ Tick
    \/ \E r \in Reqs : Arrive(r)
    \/ \E r \in Reqs : TransactionsStart(r)
    \/ \E r \in Reqs : TransactionsBuild(r)
    \/ \E r \in Reqs : TransactionsFetch(r)
    \/ \E r \in Reqs : TransactionsFinish(r)
    \/ \E r \in Reqs : RefreshStart(r)
    \/ \E r \in Reqs : RefreshFetch(r)
    \/ \E r \in Reqs : RefreshFinish(r)
    \/ \E r \in Reqs : Return(r)

Spec == Init /\ [][Next]_vars

(***************************************************************************)
(* Properties of the HTTP server (checked under Spec)                      *)
(***************************************************************************)
IsGetTransactions(q) ==
    q.path = "/transactions" /\ q.method = "GET" /\ q.routed

KeyOf(q) == getCacheKey(FilterOf(q))

\* request r's handler takes its first step (the cache lookup)
LooksUp(r) ==
    /\ IsGetTransactions(req[r])
    /\ req[r].pc = "t_start" /\ req'[r].pc # "t_start"

\* C1: a GET /transactions whose lookup reads an unexpired entry that
\* deserializes is answered 200 with exactly the stored document, in
\* that same step: no provider call is made and the cache is not touched.
C1_CacheHitServesStored ==
    [][\A r \in Reqs :
          (/\ LooksUp(r)
           /\ cache[KeyOf(req[r])].present
           /\ now < cache[KeyOf(req[r])].exp
           /\ ~Unmarshal(cache[KeyOf(req[r])].val).err
           /\ req'[r].cacheRes # "readerr")
          => /\ req'[r].pc = "done"
             /\ req'[r].status = 200
             /\ req'[r].body.kind = "json"
             /\ req'[r].body.doc = cache[KeyOf(req[r])].val
             /\ req'[r].calls = <<>>
             /\ cache' = cache]_vars

\* C1 witness: a request was answered from an entry a handler had stored
C1_Witness ==
    \E r \in Reqs :
       /\ req[r].pc = "done" /\ req[r].cacheRes = "hit"
       /\ req[r].status = 200
       /\ cache[KeyOf(req[r])].present
       /\ cache[KeyOf(req[r])].by \in {"get", "refresh"}
       /\ req[r].body.doc = cache[KeyOf(req[r])].val
       /\ req[r].body.doc.details.items # <<>>

\* C2: a GET /transactions without a (non-blank) access_token is answered
\* 401 whatever the cache holds: the token check comes before the lookup.
C2_TokenCheckedBeforeCache ==
    \A r \in Reqs :
       (/\ req[r].pc = "done"
        /\ IsGetTransactions(req[r])
        /\ TrimSpace(req[r].token) = "")
       => req[r].status = 401 /\ req[r].body.kind # "json"

ValidFilters == {"daily", "weekly", "monthly", "all"}

\* C3 as stated: a GET /transactions with an unknown filter is answered
\* 400 without any provider call, with or without an access token.
C3_UnknownFilterAlways400 ==
    \A r \in Reqs :
       (/\ req[r].pc = "done"
        /\ IsGetTransactions(req[r])
        /\ FilterOf(req[r]) \notin ValidFilters)
       => req[r].status = 400 /\ req[r].calls = <<>>

\* C3 amended: a GET /transactions with an unknown filter never causes a
\* provider call, and it is answered 400 when it carries a non-blank
\* access token and 401 when it does not.
C3_UnknownFilterNoFetch ==
    \A r \in Reqs :
       (IsGetTransactions(req[r]) /\ FilterOf(req[r]) \notin ValidFilters)
       => /\ req[r].calls = <<>>
          /\ req[r].pc \in {"t_start", "t_build", "done"}
          /\ req[r].pc = "done" =>
                /\ req[r].body.kind = "error"
                /\ req[r].status = IF TrimSpace(req[r].token) = "" THEN 401 ELSE 400

\* C3 witness: an unknown filter with a token was answered 400
C3_Witness ==
    \E r \in Reqs :
       /\ req[r].pc = "done" /\ IsGetTransactions(req[r])
       /\ req[r].filter = "unknown" /\ req[r].token = "tokA"
       /\ req[r].status = 400 /\ req[r].calls = <<>>

\* C4: GET /refresh and POST /refresh both reach refreshHandler; the
\* router rejects neither.
C4_RefreshServesGetAndPost ==
    \A r \in Reqs :
       (/\ req[r].path = "/refresh"
        /\ req[r].method \in {"GET", "POST"}
        /\ req[r].pc # "idle")
       => req[r].routed /\ ~(req[r].pc = "done" /\ req[r].status = 405)

\* C5: every provider call made for a request goes through the client
\* built from that request's own token.
C5_FetchUsesOwnClient ==
    \A r \in Reqs :
       \A i \in 1..Len(req[r].calls) : req[r].calls[i].client = req[r].token

(***************************************************************************)
(* Properties of FetchTransactions (checked under SpecFetch)               *)
(***************************************************************************)
\* what the catalogue's texts say, read by hand: the payloads that carry
\* an amount and a date, and the transaction each of them stands for
Parseable == {1, 2, 7, 8}

ExpectedTxn(n) ==
    LET d == CASE n = 1 -> <<<<2024, 3, 5>>, 123450>>
               [] n = 2 -> <<<<2024, 1, 31>>, 50000>>
               [] n = 7 -> <<<<2024, 3, 4>>, 9950>>
               [] n = 8 -> <<<<2024, 2, 20>>, 25000>>
    IN  [date |-> FormatDate(d[1]), amount |-> d[2], description |-> Description]

\* the positions of a listing whose message is retrieved and parseable
Kept(payloads, getFail) ==
    {i \in 1..Len(payloads) : i \notin getFail /\ payloads[i] \in Parseable}

\* the transactions of positions from..Len(payloads) that are kept, in order
RECURSIVE ExpectedFrom(_, _, _)
ExpectedFrom(payloads, getFail, from) ==
    IF from > Len(payloads) THEN <<>>
    ELSE (IF from \in Kept(payloads, getFail)
          THEN <<ExpectedTxn(payloads[from])>> ELSE <<>>)
         \o ExpectedFrom(payloads, getFail, from + 1)

\* C6: once the list call succeeds, FetchTransactions returns without
\* error exactly the transactions of the listed messages it retrieved whose
\* text carries both an amount and an "on DD-MM-YY" date, in the order of
\* the listing; a message that does not parse is left out and the messages
\* before and after it are still parsed and included.
C6_FetchKeepsParseableInOrder ==
    (fx.phase = "done" /\ fx.listOutcome = "ok")
    => /\ ~fx.res.err
       /\ fx.res.txns = ExpectedFrom(fx.payloads, fx.getFail, 1)

\* C6 witness: a listing with a message without a date between two
\* parseable ones gave the two, in order
C6_Witness ==
    /\ fx.phase = "done" /\ fx.listOutcome = "ok" /\ fx.getFail = {}
    /\ fx.payloads = <<1, 3, 2>>
    /\ fx.res.txns = <<ExpectedTxn(1), ExpectedTxn(2)>>

\* the calls of a fetch: one list call, then the Gets
GetIds(calls) == [i \in 1..(Len(calls) - 1) |-> calls[i + 1].id]

MonthNo(txn) ==
    IF Layout(txn).ok THEN Layout(txn).t[1] * 12 + Layout(txn).t[2] ELSE 0

MonthsOf(transactions) ==
    {MonthNo(transactions[i]) : i \in 1..Len(transactions)} \ {0}

Greatest(S) == CHOOSE m \in S : \A o \in S : o <= m

RECURSIVE SumAt(_, _)
SumAt(transactions, I) ==
    IF I = {} THEN 0
    ELSE LET i == CHOOSE j \in I : TRUE
         IN  transactions[i].amount + SumAt(transactions, I \ {i})

\* the sum of the amounts of the transactions of month m
MonthSum(transactions, m) ==
    SumAt(transactions, {i \in 1..Len(transactions) : MonthNo(transactions[i]) = m})

\* C7: when some date parses, the monthly summary's total is the sum of
\* the latest month present and its previous the sum of the second-latest
\* month present, adjacent or not; with one month present previous and
\* change are 0.
C7_MonthlyUsesTwoLatestMonths ==
    (/\ sx.phase = "done" /\ sx.period = "monthly"
     /\ MonthsOf(sx.transactions) # {})
    => LET months == MonthsOf(sx.transactions)
           latest == Greatest(months)
       IN  /\ ~sx.res.err
           /\ sx.res.summary.total = MonthSum(sx.transactions, latest)
           /\ IF months = {latest}
              THEN /\ sx.res.summary.previously = 0
                   /\ sx.res.summary.changePercentage = <<0, 1>>
              ELSE sx.res.summary.previously =
                      MonthSum(sx.transactions, Greatest(months \ {latest}))

\* C7 witness: transactions in 2024-03 and 2024-01 only; previous is the
\* January sum
C7_Witness ==
    /\ sx.phase = "done" /\ sx.period = "monthly"
    /\ MonthsOf(sx.transactions) = {2024 * 12 + 3, 2024 * 12 + 1}
    /\ Len(sx.transactions) = 3
    /\ sx.res.summary.total = 350
    /\ sx.res.summary.previously = 100

TTLOf(by) == IF by = "get" THEN TTLOnDemand ELSE TTLRefresh

Stored(e) == e.present /\ e.by \in {"get", "refresh"}

\* request r's handler leaves position pc
Leaves(r, pc) == req[r].pc = pc /\ req'[r].pc # pc

C10_CacheFailuresNeverFail ==
    [][\A r \in Reqs :
          /\ (LooksUp(r) /\ req'[r].cacheRes \in {"readerr", "badjson"})
             => /\ cache' = cache
                /\ req'[r] =
                      IF TrimSpace(req[r].token) = ""
                      THEN [req[r] EXCEPT !.pc = "done", !.status = 401,
                                          !.body = ErrorBody(401),
                                          !.from = "t_start", !.at = now,
                                          !.cacheRes = req'[r].cacheRes]
                      ELSE [req[r] EXCEPT !.pc = "t_build",
                                          !.cacheRes = req'[r].cacheRes]
          /\ (/\ Leaves(r, "t_finish")
              /\ ~calculateSummary(req[r].transactions, FilterOf(req[r])).err)
             => /\ req'[r].pc = "done"
                /\ req'[r].status = 200
                /\ req'[r].body.kind = "json"
                /\ Unmarshal(req'[r].body.doc).response =
                      [summary |-> calculateSummary(req[r].transactions,
                                                    FilterOf(req[r])).summary,
                       details |-> req[r].transactions]]_vars

\* C10 witness: the cached value did not deserialize, the fetch went
\* ahead, the write of the result failed, and the answer is 200 with the
\* transaction fetched
C10_Witness ==
    \E r \in Reqs :
       /\ req[r].pc = "done" /\ req[r].from = "t_finish"
       /\ req[r].cacheRes = "badjson"
       /\ req[r].wrote = {}
       /\ req[r].status = 200
       /\ Len(req[r].body.doc.details.items) = 1
       /\ cache[KeyOf(req[r])].present
       /\ Unmarshal(cache[KeyOf(req[r])].val).err

\* request r's handler writes its response in this step
Answers(r) == req[r].pc # "done" /\ req'[r].pc = "done"

\* C11: a request that ends with an error status leaves the cache
\* unchanged: the step that answers 4xx or 5xx (router or handler, on
\* /transactions or /refresh) changes no key and the request has written
\* none; a key only changes when its entry expires or in the step in which
\* a handler answers 200 after all its fetches and summaries succeeded.
\* So a refresh that fails at a fetch or a summary (an empty window makes
\* its summary fail) writes none of the three keys.
C11_ErrorLeavesCacheUnchanged ==
    [][/\ \A r \in Reqs :
            (Answers(r) /\ req'[r].status >= 400)
            => /\ cache' = cache
               /\ req'[r].wrote = {}
               /\ req'[r].body.kind = "error"
       /\ \A k \in CacheKeys :
            (cache'[k] # cache[k] /\ now' = now)
            => \E r \in Reqs :
                  /\ Answers(r) /\ req'[r].status = 200
                  /\ req[r].pc \in {"t_finish", "r_finish"}
                  /\ k \in req'[r].wrote
                  /\ req[r].pc = "r_finish" =>
                        \A f \in RefreshFilters :
                           ~calculateSummary(req[r].windows[f], f).err]_vars

\* C11 witness: a refresh fetched its three windows, the 2-day window
\* was empty while the 14-day one was not, the daily summary failed, the
\* answer is 500 and the weekly and monthly keys hold nothing
C11_Witness ==
    \E r \in Reqs :
       /\ req[r].pc = "done" /\ req[r].path = "/refresh"
       /\ req[r].from = "r_finish" /\ req[r].status = 500
       /\ req[r].windows.daily = <<>>
       /\ req[r].windows.weekly # <<>>
       /\ req[r].wrote = {}
       /\ \A f \in RefreshFilters : ~cache[getCacheKey(f)].present \/ cache[getCacheKey(f)].by # "refresh"

\* the transactions of a token's own mailbox within a filter's window
OwnTransactions(token, filter) ==
    FetchTransactions(token, MessagesList(token, filterDays(filter)), "ok", {}).txns

\* the document computed from a token's own mailbox for a filter
OwnDocument(token, filter) ==
    Marshal(Response(calculateSummary(OwnTransactions(token, filter), filter).summary,
                     OwnTransactions(token, filter)))

\* A cache hit does not look at the token, and it only reads: a GET
\* /transactions that reads a stored entry is answered with that entry's
\* document whatever its access_token is (also none), and the step
\* changes no key, so no expiry is extended.
C12_HitIgnoresToken ==
    [][\A r \in Reqs :
          (/\ LooksUp(r) /\ Stored(cache[KeyOf(req[r])])
           /\ req'[r].cacheRes # "readerr")
          => /\ req'[r].pc = "done" /\ req'[r].status = 200
             /\ req'[r].body = Encode(Unmarshal(cache[KeyOf(req[r])].val).response)
             /\ req'[r].body.doc = cache[KeyOf(req[r])].val
             /\ cache' = cache]_vars

\* The document a handler stores under a filter's key is the one computed
\* from the mailbox of the token of the request that stores it.
C12_StoredFromWritersMailbox ==
    [][\A r \in Reqs :
          (Answers(r) /\ req[r].pc \in {"t_finish", "r_finish"})
          => \A f \in Periods :
                getCacheKey(f) \in req'[r].wrote
                => cache'[getCacheKey(f)].val = OwnDocument(req[r].token, f)]_vars

\* C12: the cache is keyed by the filter alone: a hit is answered with
\* the stored document whatever the request's token is, that document is
\* the one computed from the mailbox of the token that caused the entry to
\* be written, and a hit neither writes to the cache nor extends an expiry.
C12_KeyedByFilterAlone ==
    C12_HitIgnoresToken /\ C12_StoredFromWritersMailbox

====
